---- MODULE Spec2Model ----
(***************************************************************************)
(* Model of the ALX travel app listings backend: the entity store          *)
(* (listings/models.py), the API serializers (listings/serializers.py)     *)
(* and the seed command (management/commands/seed.py).                     *)
(*                                                                         *)
(* The store applies what the database enforces on a write: foreign keys,  *)
(* the CheckConstraints of Booking.Meta, the unique_together of            *)
(* Review.Meta and the >= 0 check of PositiveIntegerField.  Field          *)
(* validators (MinValueValidator, MaxValueValidator) and Model.clean run   *)
(* only where a caller runs them: Model.save / objects.create do not.      *)
(***************************************************************************)
EXTENDS Integers, FiniteSets, Sequences, TLC

VARIABLES users, listings, bookings, reviews, writers, seed, resp

vars == <<users, listings, bookings, reviews, writers, seed, resp>>

(***************************************************************************)
(* Bounds of the model.                                                    *)
(***************************************************************************)
MaxListings == 2
MaxBookings == 2
MaxReviews == 4

ListingIds == 1..MaxListings
BookingIds == 1..MaxBookings
ReviewIds == 1..MaxReviews

(***************************************************************************)
(* Input values the requests are drawn from.                               *)
(***************************************************************************)
Prices == {-10, 0, 50}
MaxGuestValues == {0, 1, 4}
GuestValues == {0, 1, 4, 5}
\* dates are day numbers; 9, 10 and 12 stand for 2024-06-09, -10 and -12
CheckInValues == {10}
CheckOutValues == {9, 10, 12}
Ratings == 0..6
\* host_id values of listing requests: user 1 exists in InitListing, 2 does not
HostValues == {1, 2}

NoReq == [kind |-> "none"]

\* the seed command outside create_reviews
SeedIdle ==
    [pc |-> "idle", users |-> {}, listings |-> {}, count |-> 0, i |-> 0,
     attempts |-> 0, pairs |-> {}, created |-> {}]

\* concurrent API clients posting reviews
Writers == {"w1", "w2"}

\* uuid.uuid4 primary keys: a fresh identifier, here the least unused one
NewId(ids, used) == CHOOSE i \in ids \ used : \A j \in ids \ used : i <= j

Min(a, b) == IF a <= b THEN a ELSE b

Restrict(f, S) == [x \in S |-> f[x]]

Response(op, req, error, detail) ==
    [op |-> op, req |-> req, error |-> error, detail |-> detail]

(***************************************************************************)
(* Listing: model fields and ListingSerializer                             *)
(***************************************************************************)

NoErrors == {}
FieldError(field, message) == {[field |-> field, message |-> message]}

\* validate_price_per_night with the comparison weakened to < 0
validate_price_per_night_nonneg(value) ==
    IF value < 0
    THEN FieldError("price_per_night", "Price per night must be positive.")
    ELSE NoErrors

\* ListingSerializer.validate_price_per_night
validate_price_per_night(value) ==
    IF value <= 0
    THEN FieldError("price_per_night", "Price per night must be positive.")
    ELSE NoErrors

\* ListingSerializer.validate_max_guest_count
validate_max_guest_count(value) ==
    IF value < 1
    THEN FieldError("max_guest_count", "Maximum guest count must be at least 1.")
    ELSE NoErrors

\* validators=[MinValueValidator(0)] of Listing.price_per_night, which the
\* ModelSerializer field inherits and runs before validate_price_per_night
price_per_night_validators(value) ==
    IF value < 0
    THEN FieldError("price_per_night", "Ensure this value is greater than or equal to 0.")
    ELSE NoErrors

\* Field validation of ListingSerializer: every field is validated and the
\* errors are collected per field.
ListingSerializer_run_validation(data) ==
    (IF price_per_night_validators(data.price_per_night) # NoErrors
     THEN price_per_night_validators(data.price_per_night)
     ELSE validate_price_per_night(data.price_per_night))
    \cup validate_max_guest_count(data.max_guest_count)

\* What the database checks when a Listing row is written: the host foreign
\* key and the >= 0 check of PositiveIntegerField.  The MinValueValidator of
\* price_per_night is not part of a save.
Listing_save_error(row) ==
    IF row.host \notin users
    THEN FieldError("host", "FOREIGN KEY constraint failed")
    ELSE IF row.max_guest_count < 0
    THEN FieldError("max_guest_count", "CHECK constraint failed")
    ELSE NoErrors

ListingRow(data) ==
    [host |-> data.host_id,
     price_per_night |-> data.price_per_night,
     max_guest_count |-> data.max_guest_count,
     amenities |-> data.amenities]

\* Listing.objects.create / listing.save(): the write itself
Listing_write(op, id, data) ==
    LET row == ListingRow(data)
        err == Listing_save_error(row)
    IN  IF err = NoErrors
        THEN /\ listings' = [l \in DOMAIN listings \cup {id} |->
                                IF l = id THEN row ELSE listings[l]]
             /\ resp' = Response(op, data, "none", NoErrors)
        ELSE /\ listings' = listings
             /\ resp' = Response(op, data, "IntegrityError", err)

\* amenities is blank=True: a request that leaves it out stores ""
ListingData(h, p, m) ==
    [kind |-> "listing", host_id |-> h, price_per_night |-> p, max_guest_count |-> m,
     amenities |-> <<>>]

\* POST through ListingSerializer: is_valid() then save()
ListingSerializerCreate(h, p, m) ==
    LET data == ListingData(h, p, m)
        v == ListingSerializer_run_validation(data)
    IN  /\ DOMAIN listings # ListingIds
        /\ IF v # NoErrors
           THEN /\ listings' = listings
                /\ resp' = Response("ListingSerializer.create", data, "ValidationError", v)
           ELSE Listing_write("ListingSerializer.create",
                              NewId(ListingIds, DOMAIN listings), data)
        /\ UNCHANGED <<users, bookings, reviews, writers, seed>>

\* PUT through ListingSerializer on an existing listing
ListingSerializerUpdate(id, h, p, m) ==
    LET data == ListingData(h, p, m)
        v == ListingSerializer_run_validation(data)
    IN  /\ id \in DOMAIN listings
        /\ IF v # NoErrors
           THEN /\ listings' = listings
                /\ resp' = Response("ListingSerializer.update", data, "ValidationError", v)
           ELSE Listing_write("ListingSerializer.update", id, data)
        /\ UNCHANGED <<users, bookings, reviews, writers, seed>>

\* Listing.objects.create(...) called directly (no serializer, no full_clean)
ListingDirectCreate(h, p, m) ==
    /\ DOMAIN listings # ListingIds
    /\ Listing_write("Listing.objects.create",
                     NewId(ListingIds, DOMAIN listings), ListingData(h, p, m))
    /\ UNCHANGED <<users, bookings, reviews, writers, seed>>

\* listing.save() called directly on an existing listing
ListingDirectUpdate(id, h, p, m) ==
    /\ id \in DOMAIN listings
    /\ Listing_write("Listing.save", id, ListingData(h, p, m))
    /\ UNCHANGED <<users, bookings, reviews, writers, seed>>

\* seed.py create_listings: one iteration of the loop
SeedPriceMin == 50
SeedPriceMax == 500
SeedMaxGuestMin == 1
SeedMaxGuestMax == 8

SeedCreateListing(h, p, m) ==
    /\ DOMAIN listings # ListingIds
    /\ h \in users
    /\ p \in SeedPriceMin..SeedPriceMax
    /\ m \in SeedMaxGuestMin..SeedMaxGuestMax
    /\ Listing_write("seed.create_listings",
                     NewId(ListingIds, DOMAIN listings), ListingData(h, p, m))
    /\ UNCHANGED <<users, bookings, reviews, writers, seed>>

(***************************************************************************)
(* Specification of the listing write paths                                *)
(***************************************************************************)
InitListing ==
    /\ users = {1}
    /\ listings = <<>>
    /\ bookings = <<>>
    /\ reviews = <<>>
    /\ writers = [w \in Writers |-> NoReq]
    /\ seed = SeedIdle
    /\ resp = Response("init", NoReq, "none", NoErrors)

NextListing ==
    \E h \in HostValues, p \in Prices, m \in MaxGuestValues :
        \/ ListingSerializerCreate(h, p, m)
        \/ ListingDirectCreate(h, p, m)
        \/ SeedCreateListing(h, p, m)
        \/ \E id \in ListingIds :
              \/ ListingSerializerUpdate(id, h, p, m)
              \/ ListingDirectUpdate(id, h, p, m)

SpecListing == InitListing /\ [][NextListing]_vars

(***************************************************************************)
(* Booking: model constraints, BookingSerializer, BookingCreateSerializer  *)
(***************************************************************************)
NonFieldError(message) == FieldError("non_field_errors", message)

\* BookingSerializer.validate with the capacity comparison off by one
BookingSerializer_validate_ge(data) ==
    IF data.check_out_date <= data.check_in_date
    THEN NonFieldError("Check-out date must be after check-in date.")
    ELSE IF data.number_of_guests # 0
    THEN IF data.listing_id \notin DOMAIN listings
         THEN NonFieldError("Invalid listing ID.")
         ELSE IF data.number_of_guests >= listings[data.listing_id].max_guest_count
         THEN NonFieldError("Number of guests exceeds maximum allowed.")
         ELSE NoErrors
    ELSE NoErrors

\* BookingSerializer.validate with the listing looked up leniently: a missing
\* listing skips the capacity check instead of raising
BookingSerializer_validate_lenient(data) ==
    IF data.check_out_date <= data.check_in_date
    THEN NonFieldError("Check-out date must be after check-in date.")
    ELSE IF data.number_of_guests # 0 /\ data.listing_id \in DOMAIN listings
    THEN IF data.number_of_guests > listings[data.listing_id].max_guest_count
         THEN NonFieldError("Number of guests exceeds maximum allowed.")
         ELSE NoErrors
    ELSE NoErrors

\* BookingSerializer.validate.  Dates and the listing UUID are always truthy;
\* `if listing_id and number_of_guests` is false for number_of_guests = 0.
BookingSerializer_validate(data) ==
    IF data.check_out_date <= data.check_in_date
    THEN NonFieldError("Check-out date must be after check-in date.")
    ELSE IF data.number_of_guests # 0
    THEN IF data.listing_id \notin DOMAIN listings
         THEN NonFieldError("Invalid listing ID.")
         ELSE IF data.number_of_guests > listings[data.listing_id].max_guest_count
         THEN NonFieldError("Number of guests exceeds maximum allowed.")
         ELSE NoErrors
    ELSE NoErrors

\* BookingCreateSerializer.validate: the date order only
BookingCreateSerializer_validate(data) ==
    IF data.check_out_date <= data.check_in_date
    THEN NonFieldError("Check-out date must be after check-in date.")
    ELSE NoErrors

BookingRow(data) ==
    [listing |-> data.listing_id,
     user |-> data.user_id,
     check_in_date |-> data.check_in_date,
     check_out_date |-> data.check_out_date,
     number_of_guests |-> data.number_of_guests]

\* Booking_save_error without the check_out_after_check_in constraint
Booking_save_error_no_date_check(row) ==
    IF row.listing \notin DOMAIN listings
    THEN FieldError("listing", "FOREIGN KEY constraint failed")
    ELSE IF row.user \notin users
    THEN FieldError("user", "FOREIGN KEY constraint failed")
    ELSE IF ~(row.number_of_guests >= 1)
    THEN FieldError("at_least_one_guest", "CHECK constraint failed")
    ELSE NoErrors

\* What the database checks when a Booking row is written: the two foreign
\* keys and the CheckConstraints of Booking.Meta.
Booking_save_error(row) ==
    IF row.listing \notin DOMAIN listings
    THEN FieldError("listing", "FOREIGN KEY constraint failed")
    ELSE IF row.user \notin users
    THEN FieldError("user", "FOREIGN KEY constraint failed")
    ELSE IF ~(row.check_out_date > row.check_in_date)
    THEN FieldError("check_out_after_check_in", "CHECK constraint failed")
    ELSE IF ~(row.number_of_guests >= 1)
    THEN FieldError("at_least_one_guest", "CHECK constraint failed")
    ELSE NoErrors

\* Booking.objects.create / booking.save(): the write itself
Booking_write(op, id, data) ==
    LET row == BookingRow(data)
        err == Booking_save_error(row)
    IN  IF err = NoErrors
        THEN /\ bookings' = [b \in DOMAIN bookings \cup {id} |->
                                IF b = id THEN row ELSE bookings[b]]
             /\ resp' = Response(op, data, "none", NoErrors)
        ELSE /\ bookings' = bookings
             /\ resp' = Response(op, data, "IntegrityError", err)

BookingData(l, u, ci, co, g) ==
    [kind |-> "booking", listing_id |-> l, user_id |-> u,
     check_in_date |-> ci, check_out_date |-> co, number_of_guests |-> g]

\* POST through BookingSerializer: is_valid() then save()
BookingSerializerCreate(l, u, ci, co, g) ==
    LET data == BookingData(l, u, ci, co, g)
        v == BookingSerializer_validate(data)
    IN  /\ DOMAIN bookings # BookingIds
        /\ IF v # NoErrors
           THEN /\ bookings' = bookings
                /\ resp' = Response("BookingSerializer.create", data, "ValidationError", v)
           ELSE Booking_write("BookingSerializer.create",
                              NewId(BookingIds, DOMAIN bookings), data)
        /\ UNCHANGED <<users, listings, reviews, writers, seed>>

\* PUT through BookingSerializer on an existing booking
BookingSerializerUpdate(id, l, u, ci, co, g) ==
    LET data == BookingData(l, u, ci, co, g)
        v == BookingSerializer_validate(data)
    IN  /\ id \in DOMAIN bookings
        /\ IF v # NoErrors
           THEN /\ bookings' = bookings
                /\ resp' = Response("BookingSerializer.update", data, "ValidationError", v)
           ELSE Booking_write("BookingSerializer.update", id, data)
        /\ UNCHANGED <<users, listings, reviews, writers, seed>>

\* POST through BookingCreateSerializer: is_valid() then save(); the view
\* supplies the listing and the user of the booking
BookingCreateSerializerCreate(l, u, ci, co, g) ==
    LET data == BookingData(l, u, ci, co, g)
        v == BookingCreateSerializer_validate(data)
    IN  /\ DOMAIN bookings # BookingIds
        /\ IF v # NoErrors
           THEN /\ bookings' = bookings
                /\ resp' = Response("BookingCreateSerializer.create", data,
                                    "ValidationError", v)
           ELSE Booking_write("BookingCreateSerializer.create",
                              NewId(BookingIds, DOMAIN bookings), data)
        /\ UNCHANGED <<users, listings, reviews, writers, seed>>

\* Booking.objects.create(...) called directly: Booking.clean is not run
BookingDirectCreate(l, u, ci, co, g) ==
    /\ DOMAIN bookings # BookingIds
    /\ Booking_write("Booking.objects.create",
                     NewId(BookingIds, DOMAIN bookings), BookingData(l, u, ci, co, g))
    /\ UNCHANGED <<users, listings, reviews, writers, seed>>

\* booking.save() called directly on an existing booking
BookingDirectUpdate(id, l, u, ci, co, g) ==
    /\ id \in DOMAIN bookings
    /\ Booking_write("Booking.save", id, BookingData(l, u, ci, co, g))
    /\ UNCHANGED <<users, listings, reviews, writers, seed>>

\* seed.py create_bookings: one iteration of the loop.  The guest is any
\* user but the host, the stay lasts 1 to 14 days and the guest count is
\* random.randint(1, min(listing.max_guest_count, 6)).
SeedDurationMin == 1
SeedDurationMax == 14
SeedGuestCap == 6

SeedCreateBooking(l, u, ci, co, g) ==
    /\ DOMAIN bookings # BookingIds
    /\ l \in DOMAIN listings
    /\ u \in users \ {listings[l].host}
    /\ co - ci \in SeedDurationMin..SeedDurationMax
    /\ g \in 1..Min(listings[l].max_guest_count, SeedGuestCap)
    /\ Booking_write("seed.create_bookings",
                     NewId(BookingIds, DOMAIN bookings), BookingData(l, u, ci, co, g))
    /\ UNCHANGED <<users, listings, reviews, writers, seed>>

\* booking.delete()
BookingDelete(id) ==
    /\ id \in DOMAIN bookings
    /\ bookings' = Restrict(bookings, DOMAIN bookings \ {id})
    /\ resp' = Response("Booking.delete", [kind |-> "delete", id |-> id], "none", NoErrors)
    /\ UNCHANGED <<users, listings, reviews, writers, seed>>

(***************************************************************************)
(* Specification of the booking write paths.  The store holds the users 1  *)
(* and 2 and listing 1 of host 1; listing 2 does not exist.                *)
(***************************************************************************)
InitBooking ==
    /\ users = {1, 2}
    /\ listings = <<[host |-> 1, price_per_night |-> 50, max_guest_count |-> 4,
                    amenities |-> <<>>]>>
    /\ bookings = <<>>
    /\ reviews = <<>>
    /\ writers = [w \in Writers |-> NoReq]
    /\ seed = SeedIdle
    /\ resp = Response("init", NoReq, "none", NoErrors)

NextBooking ==
    \/ \E l \in ListingIds, u \in {2}, ci \in CheckInValues,
          co \in CheckOutValues, g \in GuestValues :
          \/ BookingSerializerCreate(l, u, ci, co, g)
          \/ BookingCreateSerializerCreate(l, u, ci, co, g)
          \/ BookingDirectCreate(l, u, ci, co, g)
          \/ SeedCreateBooking(l, u, ci, co, g)
          \/ \E id \in BookingIds :
                \/ BookingSerializerUpdate(id, l, u, ci, co, g)
                \/ BookingDirectUpdate(id, l, u, ci, co, g)
    \/ \E id \in BookingIds : BookingDelete(id)
    \/ \E m \in MaxGuestValues :
          \/ ListingSerializerUpdate(1, 1, 50, m)
          \/ ListingDirectUpdate(1, 1, 50, m)

SpecBooking == InitBooking /\ [][NextBooking]_vars

(***************************************************************************)
(* Review: model constraints and ReviewSerializer                          *)
(***************************************************************************)

\* ReviewSerializer.validate_rating
validate_rating(value) ==
    IF ~(1 <= value /\ value <= 5)
    THEN FieldError("rating", "Rating must be between 1 and 5.")
    ELSE NoErrors

\* validators=[MinValueValidator(1), MaxValueValidator(5)] of Review.rating,
\* which the ModelSerializer field inherits
rating_validators(value) ==
    IF value < 1
    THEN FieldError("rating", "Ensure this value is greater than or equal to 1.")
    ELSE IF value > 5
    THEN FieldError("rating", "Ensure this value is less than or equal to 5.")
    ELSE NoErrors

\* Field validation of ReviewSerializer: the rating, and the listing primary
\* key, which must name an existing listing.  user_id is a plain integer.
ReviewSerializer_run_validation(data) ==
    (IF rating_validators(data.rating) # NoErrors
     THEN rating_validators(data.rating)
     ELSE validate_rating(data.rating))
    \cup (IF data.listing_id \notin DOMAIN listings
          THEN FieldError("listing", "Invalid pk - object does not exist.")
          ELSE NoErrors)

ReviewRow(data) ==
    [listing |-> data.listing_id, user |-> data.user_id, rating |-> data.rating]

\* Review_save_error without the unique_together constraint
Review_save_error_no_unique(id, row) ==
    IF row.listing \notin DOMAIN listings
    THEN FieldError("listing", "FOREIGN KEY constraint failed")
    ELSE IF row.user \notin users
    THEN FieldError("user", "FOREIGN KEY constraint failed")
    ELSE IF row.rating < 0
    THEN FieldError("rating", "CHECK constraint failed")
    ELSE NoErrors

\* What the database checks when the Review row `id` is written: the two
\* foreign keys, unique_together = ['listing', 'user'] against the other
\* rows, and the >= 0 check of PositiveIntegerField.  The 1..5 validators of
\* rating are not part of a save.
Review_save_error(id, row) ==
    IF row.listing \notin DOMAIN listings
    THEN FieldError("listing", "FOREIGN KEY constraint failed")
    ELSE IF row.user \notin users
    THEN FieldError("user", "FOREIGN KEY constraint failed")
    ELSE IF \E r \in DOMAIN reviews \ {id} :
               reviews[r].listing = row.listing /\ reviews[r].user = row.user
    THEN FieldError("unique_together", "UNIQUE constraint failed: listing, user")
    ELSE IF row.rating < 0
    THEN FieldError("rating", "CHECK constraint failed")
    ELSE NoErrors

\* Review.objects.create / review.save(): the write itself
Review_write(op, id, data) ==
    LET row == ReviewRow(data)
        err == Review_save_error(id, row)
    IN  IF err = NoErrors
        THEN /\ reviews' = [r \in DOMAIN reviews \cup {id} |->
                               IF r = id THEN row ELSE reviews[r]]
             /\ resp' = Response(op, data, "none", NoErrors)
        ELSE /\ reviews' = reviews
             /\ resp' = Response(op, data, "IntegrityError", err)

ReviewData(l, u, r) ==
    [kind |-> "review", listing_id |-> l, user_id |-> u, rating |-> r]

\* POST through ReviewSerializer, first half: writer w runs is_valid()
ReviewSerializerValidate(w, l, u, r) ==
    LET data == ReviewData(l, u, r)
        v == ReviewSerializer_run_validation(data)
    IN  /\ writers[w] = NoReq
        /\ IF v # NoErrors
           THEN /\ writers' = writers
                /\ resp' = Response("ReviewSerializer.is_valid", data, "ValidationError", v)
           ELSE /\ writers' = [writers EXCEPT ![w] = data]
                /\ resp' = Response("ReviewSerializer.is_valid", data, "none", NoErrors)
        /\ UNCHANGED <<users, listings, bookings, reviews, seed>>

\* POST through ReviewSerializer, second half: writer w runs save(), one
\* INSERT that the database accepts or rejects atomically
ReviewSerializerSave(w) ==
    /\ writers[w] # NoReq
    /\ DOMAIN reviews # ReviewIds
    /\ Review_write("ReviewSerializer.save", NewId(ReviewIds, DOMAIN reviews), writers[w])
    /\ writers' = [writers EXCEPT ![w] = NoReq]
    /\ UNCHANGED <<users, listings, bookings, seed>>

\* PUT through ReviewSerializer on an existing review
ReviewSerializerUpdate(id, l, u, r) ==
    LET data == ReviewData(l, u, r)
        v == ReviewSerializer_run_validation(data)
    IN  /\ id \in DOMAIN reviews
        /\ IF v # NoErrors
           THEN /\ reviews' = reviews
                /\ resp' = Response("ReviewSerializer.update", data, "ValidationError", v)
           ELSE Review_write("ReviewSerializer.update", id, data)
        /\ UNCHANGED <<users, listings, bookings, writers, seed>>

\* Review.objects.create(...) called directly (no serializer, no full_clean)
ReviewDirectCreate(l, u, r) ==
    /\ DOMAIN reviews # ReviewIds
    /\ Review_write("Review.objects.create",
                    NewId(ReviewIds, DOMAIN reviews), ReviewData(l, u, r))
    /\ UNCHANGED <<users, listings, bookings, writers, seed>>

\* review.save() called directly on an existing review
ReviewDirectUpdate(id, l, u, r) ==
    /\ id \in DOMAIN reviews
    /\ Review_write("Review.save", id, ReviewData(l, u, r))
    /\ UNCHANGED <<users, listings, bookings, writers, seed>>

\* seed.py create_reviews: the Review.objects.create of one iteration, by a
\* user other than the host and with rating random.randint(3, 5)
SeedRatingMin == 3
SeedRatingMax == 5

SeedCreateReview(l, u, r) ==
    /\ DOMAIN reviews # ReviewIds
    /\ l \in DOMAIN listings
    /\ u \in users \ {listings[l].host}
    /\ r \in SeedRatingMin..SeedRatingMax
    /\ Review_write("seed.create_reviews",
                    NewId(ReviewIds, DOMAIN reviews), ReviewData(l, u, r))
    /\ UNCHANGED <<users, listings, bookings, writers, seed>>

\* review.delete()
ReviewDelete(id) ==
    /\ id \in DOMAIN reviews
    /\ reviews' = Restrict(reviews, DOMAIN reviews \ {id})
    /\ resp' = Response("Review.delete", [kind |-> "delete", id |-> id], "none", NoErrors)
    /\ UNCHANGED <<users, listings, bookings, writers, seed>>

(***************************************************************************)
(* Specification of concurrent review creation: two API writers and direct *)
(* writes on a store with the users 1 and 2 and listing 1 of host 1.       *)
(***************************************************************************)
InitRace ==
    /\ users = {1, 2}
    /\ listings = <<[host |-> 1, price_per_night |-> 50, max_guest_count |-> 4,
                    amenities |-> <<>>]>>
    /\ bookings = <<>>
    /\ reviews = <<>>
    /\ writers = [w \in Writers |-> NoReq]
    /\ seed = SeedIdle
    /\ resp = Response("init", NoReq, "none", NoErrors)

NextRace ==
    \/ \E w \in Writers :
          \/ \E u \in {1, 2}, r \in {4, 5} : ReviewSerializerValidate(w, 1, u, r)
          \/ ReviewSerializerSave(w)
    \/ \E u \in {1, 2} : ReviewDirectCreate(1, u, 5)
    \/ \E id \in ReviewIds : ReviewDelete(id)

SpecRace == InitRace /\ [][NextRace]_vars

(***************************************************************************)
(* Specification of the review write paths and their ratings               *)
(***************************************************************************)
RatingValues == {0, 1, 5, 6}

NextRating ==
    \/ \E w \in {"w1"} :
          \/ \E u \in {1, 2}, r \in RatingValues : ReviewSerializerValidate(w, 1, u, r)
          \/ ReviewSerializerSave(w)
    \/ \E u \in {1, 2}, r \in RatingValues :
          \/ ReviewDirectCreate(1, u, r)
          \/ SeedCreateReview(1, u, r)
          \/ \E id \in ReviewIds :
                \/ ReviewSerializerUpdate(id, 1, u, r)
                \/ ReviewDirectUpdate(id, 1, u, r)

SpecRating == InitRace /\ [][NextRating]_vars

(***************************************************************************)
(* Deletion: every foreign key is on_delete=models.CASCADE                 *)
(***************************************************************************)
\* Model.delete() returns the number of rows deleted per model
DeleteReq(id, after) ==
    [kind |-> "delete", id |-> id,
     deleted |-> [listings |-> Cardinality(DOMAIN listings) - Cardinality(DOMAIN after.listings),
                  bookings |-> Cardinality(DOMAIN bookings) - Cardinality(DOMAIN after.bookings),
                  reviews |-> Cardinality(DOMAIN reviews) - Cardinality(DOMAIN after.reviews)]]

\* Cascade of a user deletion that stops at the user's own rows: bookings
\* and reviews that other users hold on the user's listings are kept
UserCascade_own_rows_only(u) ==
    LET gone == {l \in DOMAIN listings : listings[l].host = u}
    IN  [listings |-> Restrict(listings, DOMAIN listings \ gone),
         bookings |-> Restrict(bookings,
                         {b \in DOMAIN bookings : bookings[b].user # u}),
         reviews |-> Restrict(reviews,
                         {r \in DOMAIN reviews : reviews[r].user # u})]

\* Rows left after the cascade of Listing l: Booking.listing and
\* Review.listing are CASCADE
ListingCascade(l) ==
    [listings |-> Restrict(listings, DOMAIN listings \ {l}),
     bookings |-> Restrict(bookings,
                     {b \in DOMAIN bookings : bookings[b].listing # l}),
     reviews |-> Restrict(reviews,
                     {r \in DOMAIN reviews : reviews[r].listing # l})]

\* Rows left after the cascade of User u: Listing.host, Booking.user and
\* Review.user are CASCADE, and each deleted listing cascades in turn
UserCascade(u) ==
    LET gone == {l \in DOMAIN listings : listings[l].host = u}
    IN  [listings |-> Restrict(listings, DOMAIN listings \ gone),
         bookings |-> Restrict(bookings,
                         {b \in DOMAIN bookings :
                             bookings[b].user # u /\ bookings[b].listing \notin gone}),
         reviews |-> Restrict(reviews,
                         {r \in DOMAIN reviews :
                             reviews[r].user # u /\ reviews[r].listing \notin gone})]

\* listing.delete()
ListingDelete(l) ==
    /\ l \in DOMAIN listings
    /\ listings' = ListingCascade(l).listings
    /\ bookings' = ListingCascade(l).bookings
    /\ reviews' = ListingCascade(l).reviews
    /\ resp' = Response("Listing.delete", DeleteReq(l, ListingCascade(l)), "none", NoErrors)
    /\ UNCHANGED <<users, writers, seed>>

\* user.delete()
UserDelete(u) ==
    /\ u \in users
    /\ users' = users \ {u}
    /\ listings' = UserCascade(u).listings
    /\ bookings' = UserCascade(u).bookings
    /\ reviews' = UserCascade(u).reviews
    /\ resp' = Response("User.delete", DeleteReq(u, UserCascade(u)), "none", NoErrors)
    /\ UNCHANGED <<writers, seed>>

\* seed.py clean_data: all reviews, bookings and listings, then the users
\* whose username starts with "user_" (user 2 here; user 1 is "admin")
SeedUserIds == {2}

SeedCleanData ==
    /\ reviews' = <<>>
    /\ bookings' = <<>>
    /\ listings' = <<>>
    /\ users' = users \ SeedUserIds
    /\ resp' = Response("seed.clean_data", NoReq, "none", NoErrors)
    /\ UNCHANGED <<writers, seed>>

(***************************************************************************)
(* Specification of creation and deletion over all entity kinds            *)
(***************************************************************************)
InitCascade ==
    /\ users = {1, 2}
    /\ listings = <<>>
    /\ bookings = <<>>
    /\ reviews = <<>>
    /\ writers = [w \in Writers |-> NoReq]
    /\ seed = SeedIdle
    /\ resp = Response("init", NoReq, "none", NoErrors)

NextCascade ==
    \/ \E h \in {1, 2} : ListingDirectCreate(h, 50, 4)
    \/ \E l \in ListingIds : BookingDirectCreate(l, 2, 10, 12, 1)
    \/ \E l \in ListingIds : ReviewDirectCreate(l, 1, 5)
    \/ \E l \in ListingIds : ListingDelete(l)
    \/ \E u \in {1, 2} : UserDelete(u)
    \/ SeedCleanData

SpecCascade == InitCascade /\ [][NextCascade]_vars

(***************************************************************************)
(* Derived views: Listing.average_rating, read through the serializers     *)
(***************************************************************************)
RECURSIVE Gcd(_, _)
Gcd(a, b) == IF b = 0 THEN a ELSE Gcd(b, a % b)

\* Python's int / int, kept exact as a fraction in lowest terms
TrueDiv(a, b) == [num |-> a \div Gcd(a, b), den |-> b \div Gcd(a, b)]

\* Python's int // int
FloorDiv(a, b) == [num |-> a \div b, den |-> 1]

\* sum(review.rating for review in reviews)
RECURSIVE SumRatings(_)
SumRatings(rs) ==
    IF rs = {} THEN 0
    ELSE LET r == CHOOSE x \in rs : TRUE
         IN  reviews[r].rating + SumRatings(rs \ {r})

\* average_rating with floor division in place of true division
average_rating_floor(l) ==
    LET rs == {r \in DOMAIN reviews : reviews[r].listing = l}
    IN  IF rs # {}
        THEN FloorDiv(SumRatings(rs), Cardinality(rs))
        ELSE [num |-> 0, den |-> 1]

\* Listing.average_rating: self.reviews.all() is the reviews of this listing
average_rating(l) ==
    LET rs == {r \in DOMAIN reviews : reviews[r].listing = l}
    IN  IF rs # {}
        THEN TrueDiv(SumRatings(rs), Cardinality(rs))
        ELSE [num |-> 0, den |-> 1]

\* ListingListSerializer.get_review_count
get_review_count(l) == Cardinality({r \in DOMAIN reviews : reviews[r].listing = l})

\* GET of a listing: the serializer reads average_rating (ReadOnlyField) and
\* review_count from the store at that moment
ListingRead(l) ==
    /\ l \in DOMAIN listings
    /\ resp' = Response("ListingListSerializer.data",
                        [kind |-> "read", id |-> l,
                         average_rating |-> average_rating(l),
                         review_count |-> get_review_count(l)],
                        "none", NoErrors)
    /\ UNCHANGED <<users, listings, bookings, reviews, writers, seed>>

(***************************************************************************)
(* Specification of reviews and average ratings: the users 1, 2 and 3, the *)
(* listings 1 and 2 of host 1; listing 2 is reviewed by user 2 only.       *)
(***************************************************************************)
InitAverage ==
    /\ users = {1, 2, 3}
    /\ listings = <<[host |-> 1, price_per_night |-> 50, max_guest_count |-> 4,
                    amenities |-> <<>>],
                    [host |-> 1, price_per_night |-> 50, max_guest_count |-> 4,
                    amenities |-> <<>>]>>
    /\ bookings = <<>>
    /\ reviews = <<>>
    /\ writers = [w \in Writers |-> NoReq]
    /\ seed = SeedIdle
    /\ resp = Response("init", NoReq, "none", NoErrors)

AverageRatings == {3, 4, 5}

NextAverage ==
    \/ \E l \in {1, 2}, u \in {1, 2, 3}, r \in AverageRatings :
          /\ l = 2 => u = 2
          /\ \/ ReviewDirectCreate(l, u, r)
             \/ SeedCreateReview(l, u, r)
    \/ \E id \in ReviewIds : ReviewDelete(id)
    \/ \E u \in {2, 3} : UserDelete(u)
    \/ \E l \in {1, 2} : ListingRead(l)

SpecAverage == InitAverage /\ [][NextAverage]_vars

(***************************************************************************)
(* Booking.duration_days, Booking.clean and the three validation paths     *)
(***************************************************************************)

\* duration_days counting both the check-in and the check-out day
duration_days_inclusive(row) == row.check_out_date - row.check_in_date + 1

\* Booking.duration_days: (check_out_date - check_in_date).days
duration_days(row) == row.check_out_date - row.check_in_date

\* Booking.clean, on a booking whose listing exists
clean(row) ==
    IF row.check_out_date <= row.check_in_date
    THEN NonFieldError("Check-out date must be after check-in date.")
    ELSE IF row.number_of_guests > listings[row.listing].max_guest_count
    THEN NonFieldError("Number of guests exceeds maximum allowed.")
    ELSE NoErrors

\* GET of a booking through BookingSerializer: duration_days is a
\* ReadOnlyField computed from the stored dates at that moment
BookingRead(id) ==
    /\ id \in DOMAIN bookings
    /\ resp' = Response("BookingSerializer.data",
                        [kind |-> "read", id |-> id,
                         duration_days |-> duration_days(bookings[id])],
                        "none", NoErrors)
    /\ UNCHANGED <<users, listings, bookings, reviews, writers, seed>>

\* One candidate booking for an existing listing given to Booking.clean,
\* BookingSerializer.validate and BookingCreateSerializer.validate; nothing
\* is written
BookingValidate(l, u, ci, co, g) ==
    LET data == BookingData(l, u, ci, co, g)
    IN  /\ l \in DOMAIN listings
        /\ resp' = Response("Booking.validate",
                            [kind |-> "validate", data |-> data,
                             clean |-> clean(BookingRow(data)),
                             serializer |-> BookingSerializer_validate(data),
                             create_serializer |-> BookingCreateSerializer_validate(data)],
                            "none", NoErrors)
        /\ UNCHANGED <<users, listings, bookings, reviews, writers, seed>>

(***************************************************************************)
(* Specification of booking validation and duration: bookings of listing 1 *)
(* (max_guest_count 4) by user 2, created, validated, read and deleted.    *)
(***************************************************************************)
ValidationCheckIns == {9, 10}
ValidationGuests == {0, 4, 5}

NextValidation ==
    \/ \E ci \in ValidationCheckIns, co \in CheckOutValues, g \in ValidationGuests :
          \/ BookingSerializerCreate(1, 2, ci, co, g)
          \/ BookingCreateSerializerCreate(1, 2, ci, co, g)
          \/ BookingDirectCreate(1, 2, ci, co, g)
          \/ BookingValidate(1, 2, ci, co, g)
    \/ \E id \in BookingIds :
          \/ BookingRead(id)
          \/ BookingDelete(id)

SpecValidation == InitBooking /\ [][NextValidation]_vars

(***************************************************************************)
(* Derived views: amenities_list.  A string is a sequence of characters.   *)
(***************************************************************************)
MaxNames == 2
MaxStrLen == 3

Chars == {"a", " ", ","}
Whitespace == {" "}

\* str.split(sep): the pieces between the separators, empty pieces included
RECURSIVE split(_, _)
split(s, sep) ==
    IF \A i \in 1..Len(s) : s[i] # sep
    THEN <<s>>
    ELSE LET i == CHOOSE k \in 1..Len(s) :
                      s[k] = sep /\ \A j \in 1..(k - 1) : s[j] # sep
         IN  <<SubSeq(s, 1, i - 1)>> \o split(SubSeq(s, i + 1, Len(s)), sep)

RECURSIVE lstrip(_)
lstrip(s) == IF s # <<>> /\ Head(s) \in Whitespace THEN lstrip(Tail(s)) ELSE s

RECURSIVE rstrip(_)
rstrip(s) ==
    IF s # <<>> /\ s[Len(s)] \in Whitespace THEN rstrip(SubSeq(s, 1, Len(s) - 1)) ELSE s

\* str.strip()
strip(s) == rstrip(lstrip(s))

\* sep.join(names)
RECURSIVE join(_, _)
join(sep, names) ==
    IF names = <<>> THEN <<>>
    ELSE IF Len(names) = 1 THEN names[1]
    ELSE names[1] \o sep \o join(sep, Tail(names))

\* get_amenities_list without the strip of each piece
ListingSerializer_get_amenities_list_no_strip(obj) ==
    IF obj.amenities # <<>>
    THEN split(obj.amenities, ",")
    ELSE <<>>

\* ListingSerializer.get_amenities_list
ListingSerializer_get_amenities_list(obj) ==
    IF obj.amenities # <<>>
    THEN LET pieces == split(obj.amenities, ",")
         IN  [i \in 1..Len(pieces) |-> strip(pieces[i])]
    ELSE <<>>

\* ListingListSerializer.get_amenities_list
ListingListSerializer_get_amenities_list(obj) ==
    IF obj.amenities # <<>>
    THEN LET pieces == split(obj.amenities, ",")
         IN  [i \in 1..Len(pieces) |-> strip(pieces[i])]
    ELSE <<>>

WiFi == <<"W", "i", "F", "i">>
Kitchen == <<"K", "i", "t", "c", "h", "e", "n">>
Parking == <<"P", "a", "r", "k", "i", "n", "g">>

\* the first entry of amenities_list in seed.py create_listings
SeedAmenities == {<<WiFi, Kitchen, Parking>>}

AmenitiesData(h, p, m, names, a) ==
    [kind |-> "listing", host_id |-> h, price_per_night |-> p, max_guest_count |-> m,
     names |-> names, amenities |-> a]

\* seed.py create_listings with its amenities: amenities=', '.join(amenities)
SeedCreateListingJoined(h, names) ==
    /\ DOMAIN listings # ListingIds
    /\ h \in users
    /\ Listing_write("seed.create_listings", NewId(ListingIds, DOMAIN listings),
                     AmenitiesData(h, SeedPriceMin, SeedMaxGuestMin, names,
                                   join(<<",", " ">>, names)))
    /\ UNCHANGED <<users, bookings, reviews, writers, seed>>

\* listing.amenities = ', '.join(names); listing.save()
ListingSaveJoined(id, names) ==
    /\ id \in DOMAIN listings
    /\ Listing_write("Listing.save", id,
                     AmenitiesData(listings[id].host, listings[id].price_per_night,
                                   listings[id].max_guest_count, names,
                                   join(<<",", " ">>, names)))
    /\ UNCHANGED <<users, bookings, reviews, writers, seed>>

\* listing.amenities = a; listing.save(), for any string a
ListingSetAmenities(id, a) ==
    /\ id \in DOMAIN listings
    /\ Listing_write("Listing.save.amenities", id,
                     AmenitiesData(listings[id].host, listings[id].price_per_night,
                                   listings[id].max_guest_count, <<>>, a))
    /\ UNCHANGED <<users, bookings, reviews, writers, seed>>

\* GET of a listing: amenities_list as ListingSerializer and as
\* ListingListSerializer compute it
ListingAmenitiesRead(id) ==
    /\ id \in DOMAIN listings
    /\ resp' = Response("ListingSerializer.data.amenities_list",
                        [kind |-> "read", id |-> id,
                         amenities_list |->
                             ListingSerializer_get_amenities_list(listings[id]),
                         list_amenities_list |->
                             ListingListSerializer_get_amenities_list(listings[id])],
                        "none", NoErrors)
    /\ UNCHANGED <<users, listings, bookings, reviews, writers, seed>>

(***************************************************************************)
(* Specification of the amenities of listing 1: stored joined from names   *)
(* or as any string, and read back; the seed adds listings of its own.     *)
(***************************************************************************)
AmenityNames == {<<>>, <<"a">>, <<"a", " ", "a">>}
NameSeqs == UNION {[1..k -> AmenityNames] : k \in 0..MaxNames}
Strings == UNION {[1..k -> Chars] : k \in 0..MaxStrLen}

InitAmenities ==
    /\ users = {1}
    /\ listings = <<[host |-> 1, price_per_night |-> 50, max_guest_count |-> 4,
                    amenities |-> <<>>]>>
    /\ bookings = <<>>
    /\ reviews = <<>>
    /\ writers = [w \in Writers |-> NoReq]
    /\ seed = SeedIdle
    /\ resp = Response("init", NoReq, "none", NoErrors)

NextAmenities ==
    \/ \E names \in SeedAmenities : SeedCreateListingJoined(1, names)
    \/ \E names \in NameSeqs \cup SeedAmenities : ListingSaveJoined(1, names)
    \/ \E a \in Strings : ListingSetAmenities(1, a)
    \/ \E id \in ListingIds : ListingAmenitiesRead(id)

SpecAmenities == InitAmenities /\ [][NextAmenities]_vars

(***************************************************************************)
(* seed.py: Command.create_reviews(users, listings, count)                 *)
(*                                                                         *)
(* seed holds the frame of one call: pc is the position ("idle" before     *)
(* the call, "loop" inside `for i in range(count)`, "done" after the       *)
(* return, "crashed" when an exception left the call), users and listings  *)
(* are the arguments, i the index of the for loop, attempts the counter of *)
(* the while loop, pairs the set user_listing_pairs and created the        *)
(* returned list of reviews.                                               *)
(***************************************************************************)
MaxSeedCount == 3

\* while attempts < 50
SeedMaxAttempts == 50

pair_is_fresh_always(pair, user_listing_pairs) == TRUE

\* if pair not in user_listing_pairs
pair_is_fresh(pair, user_listing_pairs) == pair \notin user_listing_pairs

\* reviews = self.create_reviews(users, listings, options['reviews'])
create_reviews_call(count) ==
    /\ seed.pc = "idle"
    /\ seed' = [seed EXCEPT !.pc = "loop", !.users = users,
                            !.listings = DOMAIN listings, !.count = count,
                            !.i = 0, !.attempts = 0, !.pairs = {},
                            !.created = {}]
    /\ resp' = Response("seed.create_reviews.call", [count |-> count], "none",
                        NoErrors)
    /\ UNCHANGED <<users, listings, bookings, reviews, writers>>

\* one pass of the while loop: a listing and a user other than its host are
\* drawn; a fresh pair is recorded, leaves the loop and is inserted with a
\* rating of 3..5 (an IntegrityError of the insert leaves the call); a pair
\* seen before counts one more attempt
create_reviews_attempt(l, u, r) ==
    /\ seed.pc = "loop"
    /\ seed.i < seed.count
    /\ seed.attempts < SeedMaxAttempts
    /\ l \in seed.listings
    /\ u \in seed.users \ {listings[l].host}
    /\ r \in SeedRatingMin..SeedRatingMax
    /\ IF pair_is_fresh(<<u, l>>, seed.pairs)
       THEN /\ DOMAIN reviews # ReviewIds
            /\ LET id == NewId(ReviewIds, DOMAIN reviews)
                   data == ReviewData(l, u, r)
               IN  /\ Review_write("seed.create_reviews", id, data)
                   /\ seed' = IF Review_save_error(id, ReviewRow(data)) = NoErrors
                              THEN [seed EXCEPT !.pairs = @ \cup {<<u, l>>},
                                                !.created = @ \cup {id},
                                                !.i = @ + 1, !.attempts = 0]
                              ELSE [seed EXCEPT !.pairs = @ \cup {<<u, l>>},
                                                !.pc = "crashed"]
       ELSE /\ seed' = [seed EXCEPT !.attempts = @ + 1]
            /\ UNCHANGED <<reviews, resp>>
    /\ UNCHANGED <<users, listings, bookings, writers>>

\* the else branch of the while loop: `continue` after 50 attempts
create_reviews_skip ==
    /\ seed.pc = "loop"
    /\ seed.i < seed.count
    /\ seed.attempts = SeedMaxAttempts
    /\ seed' = [seed EXCEPT !.i = @ + 1, !.attempts = 0]
    /\ resp' = Response("seed.create_reviews.skip", [i |-> seed.i], "none",
                        NoErrors)
    /\ UNCHANGED <<users, listings, bookings, reviews, writers>>

\* return reviews
create_reviews_return ==
    /\ seed.pc = "loop"
    /\ seed.i = seed.count
    /\ seed' = [seed EXCEPT !.pc = "done"]
    /\ resp' = Response("seed.create_reviews.return",
                        [created |-> seed.created], "none", NoErrors)
    /\ UNCHANGED <<users, listings, bookings, reviews, writers>>

\* the rows create_users and create_listings have made when handle calls
\* create_reviews: every listing's host is one of the users, and some other
\* user exists; the review table is empty
SeedListingTables ==
    {<<[host |-> 1, price_per_night |-> 50, max_guest_count |-> 4,
        amenities |-> <<>>]>>,
     <<[host |-> 1, price_per_night |-> 50, max_guest_count |-> 4,
        amenities |-> <<>>],
       [host |-> 2, price_per_night |-> 50, max_guest_count |-> 4,
        amenities |-> <<>>]>>}

InitSeedReviews ==
    /\ users = {1, 2}
    /\ listings \in SeedListingTables
    /\ bookings = <<>>
    /\ reviews = <<>>
    /\ writers = [w \in Writers |-> NoReq]
    /\ seed = SeedIdle
    /\ resp = Response("init", NoReq, "none", NoErrors)

NextSeedReviews ==
    \/ \E count \in 0..MaxSeedCount : create_reviews_call(count)
    \/ \E l \in ListingIds, u \in {1, 2}, r \in SeedRatingMin..SeedRatingMax :
          create_reviews_attempt(l, u, r)
    \/ create_reviews_skip
    \/ create_reviews_return

\* the command is one sequential process: a step that is enabled is taken
SpecSeedReviews ==
    InitSeedReviews /\ [][NextSeedReviews]_vars /\ WF_vars(NextSeedReviews)

(***************************************************************************)
(* Properties                                                              *)
(***************************************************************************)
ListingSerializerOps == {"ListingSerializer.create", "ListingSerializer.update"}
ListingDirectOps == {"Listing.objects.create", "Listing.save"}

HasFieldError(field) == \E e \in resp.detail : e.field = field

\* C6: every persisted Listing has price_per_night >= 0 and
\* max_guest_count >= 1, whichever write path stored it.
C6_ListingInvariant ==
    \A l \in DOMAIN listings :
        /\ listings[l].price_per_night >= 0
        /\ listings[l].max_guest_count >= 1

\* C7: a listing write through ListingSerializer passes price validation iff
\* price_per_night > 0 (-10 and 0 are rejected with ValidationError and the
\* store is unchanged), while a direct write with price 0 and an existing
\* host is accepted and stored.
C7_PriceState ==
    /\ resp.op \in ListingSerializerOps =>
          /\ HasFieldError("price_per_night") <=> ~(resp.req.price_per_night > 0)
          /\ HasFieldError("price_per_night") => resp.error = "ValidationError"
          /\ resp.req.price_per_night \in {-10, 0} => resp.error = "ValidationError"
    /\ (/\ resp.op \in ListingDirectOps
        /\ resp.req.price_per_night = 0
        /\ resp.req.host_id \in users) =>
          /\ resp.error = "none"
          /\ \E l \in DOMAIN listings : listings[l] = ListingRow(resp.req)

C7_PriceStep == resp'.error = "ValidationError" => listings' = listings

C7_PriceValidation == []C7_PriceState /\ [][C7_PriceStep]_vars

\* C7 witness: price 0 was stored by a direct write and a later API write of
\* price 0 was rejected.
C7_Witness ==
    /\ resp.op = "ListingSerializer.create"
    /\ resp.req.price_per_night = 0
    /\ resp.error = "ValidationError"
    /\ \E l \in DOMAIN listings : listings[l].price_per_night = 0

BookingSerializerOps == {"BookingSerializer.create", "BookingSerializer.update"}
BookingOps ==
    BookingSerializerOps \cup
    {"BookingCreateSerializer.create", "Booking.objects.create", "Booking.save",
     "seed.create_bookings"}

\* C1: every persisted Booking has number_of_guests <= the current
\* max_guest_count of its listing, whichever write path stored it and
\* whatever later happened to the listing.
C1_GuestsWithinCapacity ==
    \A b \in DOMAIN bookings :
        bookings[b].listing \in DOMAIN listings =>
            bookings[b].number_of_guests <= listings[bookings[b].listing].max_guest_count

BadBookingRequest(req) ==
    \/ req.check_out_date <= req.check_in_date
    \/ req.number_of_guests < 1

\* C2: every persisted Booking has check_out_date > check_in_date and
\* number_of_guests >= 1; a write on any path that would store otherwise is
\* rejected and leaves the bookings unchanged.
C2_BookingState ==
    /\ \A b \in DOMAIN bookings :
          /\ bookings[b].check_out_date > bookings[b].check_in_date
          /\ bookings[b].number_of_guests >= 1
    /\ (resp.op \in BookingOps /\ BadBookingRequest(resp.req)) => resp.error # "none"

C2_BookingStep ==
    (resp'.op \in BookingOps /\ BadBookingRequest(resp'.req)) => bookings' = bookings

C2_BookingConstraints == []C2_BookingState /\ [][C2_BookingStep]_vars

\* C2 witness: a direct write of a booking with check-out before check-in
\* was rejected by the store while a booking is persisted.
C2_Witness ==
    /\ resp.op = "Booking.save"
    /\ resp.req.check_out_date < resp.req.check_in_date
    /\ resp.error = "IntegrityError"
    /\ DOMAIN bookings # {}

\* C3: for an existing listing and dates in order, BookingSerializer.validate
\* succeeds iff number_of_guests <= listing.max_guest_count.
C3_CapacityIff ==
    (/\ resp.op \in BookingSerializerOps
     /\ resp.req.listing_id \in DOMAIN listings
     /\ resp.req.check_out_date > resp.req.check_in_date) =>
        (resp.error # "ValidationError" <=>
            resp.req.number_of_guests <= listings[resp.req.listing_id].max_guest_count)

\* C3 witness: with max_guest_count = 4 a booking for 4 guests was stored
\* through BookingSerializer and a request for 5 guests then failed.
C3_Witness ==
    /\ resp.op = "BookingSerializer.create"
    /\ resp.req.listing_id \in DOMAIN listings
    /\ listings[resp.req.listing_id].max_guest_count = 4
    /\ resp.req.number_of_guests = 5
    /\ resp.error = "ValidationError"
    /\ \E b \in DOMAIN bookings :
          /\ bookings[b].listing = resp.req.listing_id
          /\ bookings[b].number_of_guests = 4

\* C9 as stated: a booking request (guests and dates valid) for a listing
\* that does not exist fails with NotFoundError, an outcome other than the
\* ValidationError of the capacity check.
C9_NotFoundError ==
    (/\ resp.op \in BookingSerializerOps
     /\ resp.req.listing_id \notin DOMAIN listings
     /\ resp.req.number_of_guests >= 1
     /\ resp.req.check_out_date > resp.req.check_in_date) =>
        /\ resp.error = "NotFoundError"
        /\ resp.error # "ValidationError"

\* C9 amended: a BookingSerializer request for a listing that does not exist
\* fails with ValidationError when number_of_guests >= 1 (message "Invalid
\* listing ID." when the dates are in order), the error class also raised
\* when the guest count exceeds the capacity of an existing listing; with
\* number_of_guests = 0 the store rejects the write; no Booking is written.
C9_State ==
    resp.op \in BookingSerializerOps =>
        /\ resp.req.listing_id \notin DOMAIN listings =>
              /\ resp.error # "none"
              /\ resp.req.number_of_guests >= 1 => resp.error = "ValidationError"
              /\ (/\ resp.req.number_of_guests >= 1
                  /\ resp.req.check_out_date > resp.req.check_in_date) =>
                    resp.detail = NonFieldError("Invalid listing ID.")
              /\ resp.req.number_of_guests = 0 =>
                    resp.error \in {"ValidationError", "IntegrityError"}
        /\ (/\ resp.req.listing_id \in DOMAIN listings
            /\ resp.req.number_of_guests > listings[resp.req.listing_id].max_guest_count) =>
              /\ resp.error = "ValidationError"
              /\ resp.detail # NonFieldError("Invalid listing ID.")

C9_Step ==
    (resp'.op \in BookingSerializerOps /\ resp'.error # "none") => bookings' = bookings

C9_InvalidListing == []C9_State /\ [][C9_Step]_vars

\* C9 witness: a request for the missing listing 2 with one guest and dates
\* in order was answered "Invalid listing ID."
C9_Witness ==
    /\ resp.op = "BookingSerializer.create"
    /\ resp.req.listing_id \notin DOMAIN listings
    /\ resp.req.number_of_guests = 1
    /\ resp.error = "ValidationError"
    /\ resp.detail = NonFieldError("Invalid listing ID.")

SamePair(row, l, u) == row.listing = l /\ row.user = u

ReviewCreateOps == {"ReviewSerializer.save", "Review.objects.create", "seed.create_reviews"}

\* C4: there is at most one Review per (user, listing) pair under any
\* interleaving of review writers; a review creation commits iff no review
\* of the pair is stored at that moment, and otherwise fails with the
\* store's uniqueness error and writes nothing.
C4_UniqueState ==
    \A r1, r2 \in DOMAIN reviews :
        SamePair(reviews[r1], reviews[r2].listing, reviews[r2].user) => r1 = r2

C4_UniqueStep ==
    resp'.op \in ReviewCreateOps =>
        IF \E r \in DOMAIN reviews :
              SamePair(reviews[r], resp'.req.listing_id, resp'.req.user_id)
        THEN /\ resp'.error = "IntegrityError"
             /\ resp'.detail =
                   FieldError("unique_together", "UNIQUE constraint failed: listing, user")
             /\ reviews' = reviews
        ELSE /\ resp'.error = "none"
             /\ \E r \in DOMAIN reviews' \ DOMAIN reviews :
                   /\ reviews'[r] = ReviewRow(resp'.req)
                   /\ DOMAIN reviews' = DOMAIN reviews \cup {r}
                   /\ \A q \in DOMAIN reviews : reviews'[q] = reviews[q]

C4_ReviewUniqueness == []C4_UniqueState /\ [][C4_UniqueStep]_vars

\* C4 witness: both writers validated a review of the same pair, one has
\* committed it and the other has still to save; user 2 has reviewed the
\* same listing as well.
C4_Witness ==
    /\ writers["w2"] # NoReq
    /\ resp.op = "ReviewSerializer.save"
    /\ resp.error = "none"
    /\ resp.req.listing_id = writers["w2"].listing_id
    /\ resp.req.user_id = writers["w2"].user_id
    /\ \E r \in DOMAIN reviews :
          reviews[r].listing = resp.req.listing_id /\ reviews[r].user # resp.req.user_id

ReviewSerializerOps == {"ReviewSerializer.is_valid", "ReviewSerializer.update"}

\* C5: a review is accepted iff 1 <= rating <= 5, by ReviewSerializer and
\* by the store, so that every persisted Review has a rating in 1..5.
C5_RatingRange ==
    /\ \A r \in DOMAIN reviews : reviews[r].rating \in 1..5
    /\ resp.op \in ReviewSerializerOps =>
          (HasFieldError("rating") <=> resp.req.rating \notin 1..5)

\* C8: no Booking or Review references a missing Listing or User and no
\* Listing a missing host; deleting a Listing removes exactly its Bookings
\* and Reviews; deleting a User removes exactly the user's Listings,
\* Bookings and Reviews and the Bookings and Reviews on those Listings.
C8_RefState ==
    /\ \A l \in DOMAIN listings : listings[l].host \in users
    /\ \A b \in DOMAIN bookings :
          bookings[b].listing \in DOMAIN listings /\ bookings[b].user \in users
    /\ \A r \in DOMAIN reviews :
          reviews[r].listing \in DOMAIN listings /\ reviews[r].user \in users

Kept(old, new, keep(_)) ==
    /\ DOMAIN new = {x \in DOMAIN old : keep(old[x])}
    /\ \A x \in DOMAIN new : new[x] = old[x]

C8_DeleteStep ==
    /\ resp'.op = "Listing.delete" =>
          LET l == resp'.req.id
              KeepListing(row) == TRUE
              KeepDependent(row) == row.listing # l
          IN  /\ users' = users
              /\ Kept(Restrict(listings, DOMAIN listings \ {l}), listings', KeepListing)
              /\ l \notin DOMAIN listings'
              /\ Kept(bookings, bookings', KeepDependent)
              /\ Kept(reviews, reviews', KeepDependent)
    /\ resp'.op = "User.delete" =>
          LET u == resp'.req.id
              KeepListing(row) == row.host # u
              KeepDependent(row) == row.user # u /\ listings[row.listing].host # u
          IN  /\ users' = users \ {u}
              /\ Kept(listings, listings', KeepListing)
              /\ Kept(bookings, bookings', KeepDependent)
              /\ Kept(reviews, reviews', KeepDependent)

C8_CascadeIntegrity == []C8_RefState /\ [][C8_DeleteStep]_vars

\* C8 witness: the deletion of user 1 removed their listing, their review
\* and the booking user 2 held on that listing (bookings are made by user 2
\* only), while the listing user 2 hosts and a booking of it are still stored.
C8_Witness ==
    /\ resp.op = "User.delete"
    /\ resp.req.id = 1
    /\ resp.req.deleted.listings = 1
    /\ resp.req.deleted.bookings >= 1
    /\ resp.req.deleted.reviews >= 1
    /\ users = {2}
    /\ DOMAIN listings # {}
    /\ DOMAIN bookings # {}

ReviewsOf(l) == {r \in DOMAIN reviews : reviews[r].listing = l}

\* sum of the ratings of a set of reviews, counted rating by rating
RatingTotal(rs) ==
    1 * Cardinality({r \in rs : reviews[r].rating = 1})
    + 2 * Cardinality({r \in rs : reviews[r].rating = 2})
    + 3 * Cardinality({r \in rs : reviews[r].rating = 3})
    + 4 * Cardinality({r \in rs : reviews[r].rating = 4})
    + 5 * Cardinality({r \in rs : reviews[r].rating = 5})
    + 6 * Cardinality({r \in rs : reviews[r].rating = 6})

IsMeanOf(avg, rs) ==
    /\ avg.den > 0
    /\ IF rs = {} THEN avg.num = 0
       ELSE avg.num * Cardinality(rs) = avg.den * RatingTotal(rs)

\* C10: average_rating of a listing is the arithmetic mean of the ratings of
\* the reviews it has now, and 0 when it has none; the value a read returns
\* is that of the review set at the time of the read.
C10_AverageRating ==
    /\ \A l \in DOMAIN listings : IsMeanOf(average_rating(l), ReviewsOf(l))
    /\ resp.op = "ListingListSerializer.data" =>
          /\ IsMeanOf(resp.req.average_rating, ReviewsOf(resp.req.id))
          /\ resp.req.review_count = Cardinality(ReviewsOf(resp.req.id))

\* C10 witness: listing 1 has the ratings 3, 4 and 5 and reads as 4 while
\* listing 2 has a review of its own.
C10_Witness ==
    /\ resp.op = "ListingListSerializer.data"
    /\ resp.req.id = 1
    /\ resp.req.average_rating = [num |-> 4, den |-> 1]
    /\ {reviews[r].rating : r \in ReviewsOf(1)} = {3, 4, 5}
    /\ ReviewsOf(2) # {}

\* C11: duration_days of a persisted booking is check_out_date minus
\* check_in_date in days (10 June to 12 June gives 2) and at least 1, also
\* as read through BookingSerializer; creating a booking through
\* BookingCreateSerializer with check-out on or before check-in fails with
\* ValidationError and writes nothing.
C11_DurationState ==
    /\ \A b \in DOMAIN bookings :
          /\ duration_days(bookings[b]) >= 1
          /\ bookings[b].check_in_date + duration_days(bookings[b])
                = bookings[b].check_out_date
    /\ resp.op = "BookingSerializer.data" =>
          /\ resp.req.duration_days >= 1
          /\ bookings[resp.req.id].check_in_date + resp.req.duration_days
                = bookings[resp.req.id].check_out_date
          /\ (/\ bookings[resp.req.id].check_in_date = 10
              /\ bookings[resp.req.id].check_out_date = 12) => resp.req.duration_days = 2
    /\ (/\ resp.op = "BookingCreateSerializer.create"
        /\ resp.req.check_out_date <= resp.req.check_in_date) =>
          resp.error = "ValidationError"

C11_DurationStep ==
    (/\ resp'.op = "BookingCreateSerializer.create"
     /\ resp'.req.check_out_date <= resp'.req.check_in_date) => bookings' = bookings

C11_DurationDays == []C11_DurationState /\ [][C11_DurationStep]_vars

\* C11 witness: the booking from 10 June to 12 June reads as 2 days while
\* another booking of a different length is stored.
C11_Witness ==
    /\ resp.op = "BookingSerializer.data"
    /\ bookings[resp.req.id].check_in_date = 10
    /\ bookings[resp.req.id].check_out_date = 12
    /\ resp.req.duration_days = 2
    /\ \E b \in DOMAIN bookings : duration_days(bookings[b]) # 2

Rejects(errors) == errors # NoErrors

\* C13: Booking.clean, BookingSerializer.validate and
\* BookingCreateSerializer.validate each reject a candidate booking of an
\* existing listing iff check_out <= check_in or number_of_guests >
\* listing.max_guest_count.
C13_SameRejections ==
    resp.op = "Booking.validate" =>
        LET data == resp.req.data
            bad == \/ data.check_out_date <= data.check_in_date
                   \/ data.number_of_guests > listings[data.listing_id].max_guest_count
        IN  /\ Rejects(resp.req.clean) <=> bad
            /\ Rejects(resp.req.serializer) <=> bad
            /\ Rejects(resp.req.create_serializer) <=> bad

\* a name with no comma and no leading or trailing whitespace
CleanName(name) ==
    /\ \A i \in 1..Len(name) : name[i] # ","
    /\ name # <<>> => (Head(name) \notin Whitespace /\ name[Len(name)] \notin Whitespace)

JoinedOps == {"seed.create_listings", "Listing.save"}

\* C12 as stated: names without comma and without leading or trailing
\* whitespace, stored joined by ", ", read back as the same names in the
\* same order.
C12_RoundTripAllNames ==
    (/\ resp.op \in JoinedOps
     /\ resp.error = "none"
     /\ \A i \in 1..Len(resp.req.names) : CleanName(resp.req.names[i])) =>
        \A l \in DOMAIN listings :
            listings[l].amenities = resp.req.amenities =>
                ListingSerializer_get_amenities_list(listings[l]) = resp.req.names

RECURSIVE Letters(_)
\* the characters of a string that are neither whitespace nor commas
Letters(s) ==
    IF s = <<>> THEN <<>>
    ELSE IF Head(s) \in Whitespace \cup {","} THEN Letters(Tail(s))
    ELSE <<Head(s)>> \o Letters(Tail(s))

RECURSIVE Flatten(_)
Flatten(list) == IF list = <<>> THEN <<>> ELSE Head(list) \o Flatten(Tail(list))

Commas(s) == Cardinality({i \in 1..Len(s) : s[i] = ","})

\* the list is the stored string cut at its commas with each piece trimmed
IsTrimmedSplit(list, s) ==
    IF s = <<>> THEN list = <<>>
    ELSE /\ Len(list) = Commas(s) + 1
         /\ \A i \in 1..Len(list) : CleanName(list[i])
         /\ Letters(Flatten(list)) = Letters(s)

\* C12 amended: the round trip holds for non-empty names without comma and
\* without leading or trailing whitespace; amenities_list is the stored
\* string split on commas with each piece trimmed, the empty sequence for
\* the empty string; both serializers compute the same list.
C12_Amenities ==
    /\ (/\ resp.op \in JoinedOps
        /\ resp.error = "none"
        /\ \A i \in 1..Len(resp.req.names) :
              CleanName(resp.req.names[i]) /\ resp.req.names[i] # <<>>) =>
          \A l \in DOMAIN listings :
              listings[l].amenities = resp.req.amenities =>
                  ListingSerializer_get_amenities_list(listings[l]) = resp.req.names
    /\ \A l \in DOMAIN listings :
          /\ IsTrimmedSplit(ListingSerializer_get_amenities_list(listings[l]),
                            listings[l].amenities)
          /\ ListingListSerializer_get_amenities_list(listings[l])
                = ListingSerializer_get_amenities_list(listings[l])
          /\ listings[l].amenities = join(<<",", " ">>, <<WiFi, Kitchen, Parking>>) =>
                ListingSerializer_get_amenities_list(listings[l])
                    = <<WiFi, Kitchen, Parking>>
    /\ resp.op = "ListingSerializer.data.amenities_list" =>
          /\ IsTrimmedSplit(resp.req.amenities_list, listings[resp.req.id].amenities)
          /\ resp.req.list_amenities_list = resp.req.amenities_list

\* C12 witness: listing 1 stores two names, one with a blank inside, and
\* reads back as those names while a seeded listing stores
\* "WiFi, Kitchen, Parking".
C12_Witness ==
    /\ resp.op = "ListingSerializer.data.amenities_list"
    /\ resp.req.id = 1
    /\ resp.req.amenities_list = <<<<"a", " ", "a">>, <<"a">>>>
    /\ listings[1].amenities = <<"a", " ", "a", ",", " ", "a">>
    /\ \E l \in DOMAIN listings :
          listings[l].amenities = join(<<",", " ">>, <<WiFi, Kitchen, Parking>>)

\* C14: one run of create_reviews over users and listings in which every
\* listing has a non-host user terminates; a review makes at most 50
\* pair-selection attempts and is skipped only when all 50 found a used pair;
\* at most the requested number of reviews is created; no two reviews share a
\* (user, listing) pair; no review is written by the listing's host; and from
\* an empty review table no insert fails on the uniqueness constraint.
C14_SeedState ==
    /\ seed.attempts <= SeedMaxAttempts
    /\ seed.i <= seed.count
    /\ Cardinality(seed.created) <= seed.i
    /\ seed.pc # "crashed"
    /\ resp.error # "IntegrityError"
    /\ seed.pc # "idle" =>
          /\ DOMAIN reviews = seed.created
          /\ Cardinality(DOMAIN reviews) <= seed.count
          /\ \A a, b \in DOMAIN reviews :
                (reviews[a].listing = reviews[b].listing
                   /\ reviews[a].user = reviews[b].user) => a = b
          /\ \A a \in DOMAIN reviews :
                reviews[a].user # listings[reviews[a].listing].host
          /\ seed.pairs = {<<reviews[a].user, reviews[a].listing>> :
                              a \in DOMAIN reviews}

C14_SeedStep ==
    (seed.pc = "loop" /\ seed'.i = seed.i + 1 /\ reviews' = reviews)
        => (seed.attempts = SeedMaxAttempts /\ seed'.attempts = 0)

C14_SeedReviews ==
    /\ []C14_SeedState
    /\ [][C14_SeedStep]_vars
    /\ (seed.pc = "loop") ~> (seed.pc = "done" /\ seed.i = seed.count)

\* a run that was asked for three reviews returned two: the third found no
\* fresh pair in 50 attempts and was skipped
C14_Witness ==
    /\ seed.pc = "done"
    /\ seed.count = 3
    /\ Cardinality(seed.created) = 2
    /\ Cardinality(DOMAIN reviews) = 2
    /\ resp.op = "seed.create_reviews.return"

====
